---- MODULE Spec2Model ----
(***************************************************************************)
(* Relay bot (main.py): a Flask webhook that forwards user messages to the *)
(* admins and relays admin replies back, with the forward directory and    *)
(* the replied set persisted in a GitHub Gist.                              *)
(*                                                                         *)
(* Optional values (Python None / absent key) are sequences of length 0   *)
(* or 1.  Message texts are opaque: a call carries the tag of the text it  *)
(* sends ("relay", "success", "failure", "info").                          *)
(***************************************************************************)
EXTENDS Integers, Sequences, FiniteSets, TLC

\* ------------------------------------------------------------------ bounds
\* Origin message ids range over 1..MaxMsgId.
MaxMsgId == 2
\* At most MaxMedia media keys are present in one inbound message.
MaxMedia == 2

\* ------------------------------------------------------------ configuration
\* ADMIN_CHAT_IDS="9000,9001"
ADMIN_IDS == <<9000, 9001>>

\* Sample identities: a sender that is no admin (its private chat has the
\* same id), a group chat, and the message id of an admin's own message.
\* and an id that no forwarded copy has.
Ids == [customer |-> 100, group |-> -200, admin_msg |-> 77, unknown |-> 40]
Chats == {Ids.customer, Ids.group}
MsgIds == 1..MaxMsgId
\* Ids the platform gave to forwarded copies (keys of forward_map).
FwdIds == {5, 12}

None == << >>
Some(x) == <<x>>

\* --------------------------------------------------------------- str / int
DigitChars == <<"0", "1", "2", "3", "4", "5", "6", "7", "8", "9">>

RECURSIVE NatStr(_)
NatStr(n) ==
    IF n < 10 THEN <<DigitChars[n + 1]>>
    ELSE NatStr(n \div 10) \o <<DigitChars[(n % 10) + 1]>>

\* str(k) of an int: its decimal digits, with a leading "-" when negative.
PyStr(k) == IF k < 0 THEN <<"-">> \o NatStr(0 - k) ELSE NatStr(k)

DigitVal(c) == (CHOOSE i \in 1..10 : DigitChars[i] = c) - 1

RECURSIVE NatVal(_)
NatVal(s) ==
    IF Len(s) = 0 THEN 0
    ELSE 10 * NatVal(SubSeq(s, 1, Len(s) - 1)) + DigitVal(s[Len(s)])

\* int(k) of a decimal string.
PyInt(s) == IF s[1] = "-" THEN 0 - NatVal(Tail(s)) ELSE NatVal(s)

\* ------------------------------------------------------------ JSON records
\* A gist file is absent, unparsable, or holds a JSON value.
NoFile == [kind |-> "absent"]
Corrupt == [kind |-> "corrupt"]
Json(v) == [kind |-> "json", val |-> v]

\* A mutation of list(v): sorted(v).
PyListSorted(v) ==
    [arr |-> IF Len(v) = 2 /\ v[2] < v[1] THEN <<v[2], v[1]>> ELSE v]

\* list(v) of a tuple: a JSON array of the same items in the same order.
PyList(v) == [arr |-> v]
\* tuple(v) of a JSON array.
PyTuple(a) == a.arr

RECURSIVE SetToSeq(_)
SetToSeq(S) ==
    IF S = {} THEN << >>
    ELSE LET x == CHOOSE y \in S : \A z \in S : y <= z
         IN <<x>> \o SetToSeq(S \ {x})

\* list(replied_messages): every element once (iteration order is not
\* significant to set() on load).
PyListOfSet(S) == [arr |-> SetToSeq(S)]
\* set(json.loads(content))
PySetOfList(a) == {a.arr[i] : i \in 1..Len(a.arr)}

\* {str(k): list(v) for k, v in forward_map.items()}
ForwardMapData(fm) ==
    [s \in {PyStr(k) : k \in DOMAIN fm} |->
        PyList(fm[CHOOSE k \in DOMAIN fm : PyStr(k) = s])]

\* {int(k): tuple(v) for k, v in data.items()}
ForwardMapFromData(data) ==
    [k \in {PyInt(s) : s \in DOMAIN data} |->
        PyTuple(data[CHOOSE s \in DOMAIN data : PyInt(s) = k])]

\* ------------------------------------------------------------------ state
VARIABLES
    pc,                \* "start" (before load_data_from_gist), "serving",
                       \* "responding" (a handler has just returned)
    configured,        \* GITHUB_TOKEN and GIST_ID are both set
    gist,              \* the gist's two files
    forward_map,       \* forwarded_msg_id -> <<orig_chat_id, orig_msg_id>>
    replied_messages,  \* set of message ids that have been replied to
    relayed,           \* history: origin ids relayed successfully in this run
    persisted,         \* history: in-memory state at the last successful save
    last,              \* history: the last operation, its inputs (the event,
                       \* whether a platform call it issued raised) and effects
    handlers           \* per request thread: the position and locals of the
                       \* handler it runs (used when requests overlap)

vars == <<pc, configured, gist, forward_map, replied_messages, relayed,
          persisted, last, handlers>>

EmptyMap == [k \in {} |-> None]

\* Links a gist of an earlier run can hold.
Links == Chats \X MsgIds

\* The files as stored JSON: keys are decimal strings, values are arrays.
KeyStrings == {<<"5">>, <<"1", "2">>}
StoredMaps ==
    UNION {[S -> {[arr |-> <<l[1], l[2]>>] : l \in Links}] : S \in SUBSET KeyStrings}
StoredSets == {[arr |-> SetToSeq(S)] : S \in SUBSET MsgIds}

GistFiles ==
    [fm : {NoFile, Corrupt} \cup {Json(m) : m \in StoredMaps},
     rm : {NoFile, Corrupt} \cup {Json(s) : s \in StoredSets}]

\* ------------------------------------------------------- persistence store
LoadStatuses == {"200", "non200", "exc"}
SaveStatuses == {"200", "non200", "exc"}

\* A mutation of load_data_from_gist: both files are parsed before either
\* global is assigned.
load_all_or_nothing(fm, rm, cfg, g, status) ==
    IF ~cfg THEN [fm |-> fm, rm |-> rm]
    ELSE IF status # "200" THEN [fm |-> fm, rm |-> rm]
    ELSE IF g.fm.kind = "corrupt" \/ g.rm.kind = "corrupt"
         THEN [fm |-> fm, rm |-> rm]
    ELSE [fm |-> IF g.fm.kind = "json" THEN ForwardMapFromData(g.fm.val) ELSE fm,
          rm |-> IF g.rm.kind = "json" THEN PySetOfList(g.rm.val) ELSE rm]

\* load_data_from_gist: the new <<forward_map, replied_messages>>.  A file
\* that does not parse raises inside the try block, which ends the load
\* with whatever was assigned before it.
load_data_from_gist(fm, rm, cfg, g, status) ==
    IF ~cfg THEN [fm |-> fm, rm |-> rm]
    ELSE IF status # "200" THEN [fm |-> fm, rm |-> rm]
    ELSE IF g.fm.kind = "corrupt" THEN [fm |-> fm, rm |-> rm]
    ELSE LET fm2 == IF g.fm.kind = "json" THEN ForwardMapFromData(g.fm.val)
                    ELSE fm
         IN IF g.rm.kind = "json"
            THEN [fm |-> fm2, rm |-> PySetOfList(g.rm.val)]
            ELSE [fm |-> fm2, rm |-> rm]

\* A mutation of save_data_to_gist: the PATCH names forward_map.json only.
save_map_only(fm, rm, cfg, g, status) ==
    IF ~cfg THEN [gist |-> g, sent |-> << >>]
    ELSE IF status = "200"
         THEN [gist |-> [fm |-> Json(ForwardMapData(fm)), rm |-> g.rm],
               sent |-> <<status>>]
         ELSE [gist |-> g, sent |-> <<status>>]

\* save_data_to_gist: the gist after the call, and whether a PATCH was sent.
\* Nothing is raised to the caller in any case.
save_data_to_gist(fm, rm, cfg, g, status) ==
    IF ~cfg THEN [gist |-> g, sent |-> << >>]
    ELSE IF status = "200"
         THEN [gist |-> [fm |-> Json(ForwardMapData(fm)),
                         rm |-> Json(PyListOfSet(rm))],
               sent |-> <<status>>]
         ELSE [gist |-> g, sent |-> <<status>>]

\* ------------------------------------------------------------ platform API
\* telegram_api: the platform answers ok, answers with an error (logged,
\* the answer is returned), or the HTTP call / the decoding of its body
\* raises.
Outcomes == {"ok", "fail", "raise"}

\* A call of telegram_api(method, **params).
Call(method, chat_id, text, media, caption, reply_to) ==
    [method |-> method, chat_id |-> chat_id, text |-> text, media |-> media,
     caption |-> caption, reply_to |-> reply_to, source |-> None]

\* telegram_api("forwardMessage", chat_id, from_chat_id, message_id)
Forward(chat_id, from_chat_id, message_id) ==
    [method |-> "forwardMessage", chat_id |-> chat_id, text |-> "none",
     media |-> "none", caption |-> FALSE, reply_to |-> None,
     source |-> Some(<<from_chat_id, message_id>>)]

\* Calls are made in order until one raises: the calls made, and whether
\* the exception left the handler.
Issue(planned, oc) ==
    LET raising == {i \in 1..Len(planned) : oc[i] = "raise"}
        stop == IF raising = {} THEN Len(planned)
                ELSE CHOOSE i \in raising : \A j \in raising : i <= j
    IN [calls |-> SubSeq(planned, 1, stop), raised |-> raising # {}]

\* ------------------------------------------------------------------ media
\* media_types of get_file_id, in dict order.
MediaTypes == <<"photo", "video", "document", "audio", "voice", "sticker">>

\* method_map of forward_media_message.
MethodMap ==
    [photo |-> "sendPhoto", video |-> "sendVideo", document |-> "sendDocument",
     audio |-> "sendAudio", voice |-> "sendVoice", sticker |-> "sendSticker"]

\* A media key of a message is absent, holds a payload with a file_id
\* ("ok"), or holds one the extractor fails on with KeyError / IndexError
\* ("bad": an empty photo list, an object without file_id).
MediaStates == {"absent", "ok", "bad"}
NoMedia == [t \in {MediaTypes[i] : i \in 1..Len(MediaTypes)} |-> "absent"]

RECURSIVE FirstExtractable(_, _)
FirstExtractable(media, i) ==
    IF i > Len(MediaTypes) THEN None
    ELSE IF media[MediaTypes[i]] = "ok" THEN Some(MediaTypes[i])
    ELSE FirstExtractable(media, i + 1)

\* A mutation of get_file_id: a failed extraction ends the search.
get_file_id_no_skip(msg) ==
    LET present == {i \in 1..Len(MediaTypes) : msg.media[MediaTypes[i]] # "absent"}
    IN IF present = {} THEN None
       ELSE LET i == CHOOSE j \in present : \A k \in present : j <= k
            IN IF msg.media[MediaTypes[i]] = "ok" THEN Some(MediaTypes[i])
               ELSE None

\* get_file_id: the first media type, in order, that is in msg and whose
\* extractor does not fail; None when there is none.
get_file_id(msg) == FirstExtractable(msg.media, 1)

\* forward_media_message: the call it makes (method_map has all six types).
forward_media_message(chat_id, media_type, caption, reply_to_message_id) ==
    Call(MethodMap[media_type], chat_id, "relay", media_type,
         caption,
         IF reply_to_message_id # 0 THEN Some(reply_to_message_id) ELSE None)

\* ---------------------------------------------------------------- webhook
\* What one run of the handler leaves behind.
Outcome(fm, rm, g, calls, saves, relay, result, marked, snapshot) ==
    [fm |-> fm, rm |-> rm, gist |-> g, calls |-> calls, saves |-> saves,
     relay |-> relay, result |-> result, marked |-> marked,
     snapshot |-> snapshot]

\* return {"ok": True} with nothing done.
Quiet(fm, rm, g) == Outcome(fm, rm, g, << >>, << >>, "none", "ok", None, None)

\* A mutation of the admin test: every sender passes it.
IsAdminAnySender(user_id) == TRUE

\* A mutation of the admin test: "if user_id:".
IsAdminTruthy(user_id) == user_id # 0

\* user_id in ADMIN_IDS
IsAdmin(user_id) == \E i \in 1..Len(ADMIN_IDS) : ADMIN_IDS[i] = user_id

\* reply_to_id in forward_map
InDirectory(fm, reply_to_id) == reply_to_id \in DOMAIN fm

\* A mutation of the success test: "if response:" (any non-empty answer).
RelayOkAnyAnswer(response) == response \in {"ok", "fail"}

\* response.get('ok')
RelayOk(response) == response = "ok"

\* Mutations of the marking: nothing is added; a second mark removes.
MarkRepliedNoop(rm, orig_msg_id) == rm
MarkRepliedToggle(rm, orig_msg_id) ==
    IF orig_msg_id \in rm THEN rm \ {orig_msg_id} ELSE rm \cup {orig_msg_id}

\* A mutation of the marking: the set is assigned, not added to.
MarkRepliedOnly(rm, orig_msg_id) == {orig_msg_id}

\* replied_messages.add(orig_msg_id)
MarkReplied(rm, orig_msg_id) == rm \cup {orig_msg_id}

\* forward_map[fwd_id] = (chat_id, message_id)
Put(fm, fwd_id, link) ==
    [k \in DOMAIN fm \cup {fwd_id} |-> IF k = fwd_id THEN link ELSE fm[k]]

\* The relay of an admin's reply to the origin chat: the reply's media if
\* get_file_id finds one, else its text.
RelayCall(msg, link) ==
    LET media_info == get_file_id(msg)
    IN IF media_info # None
       THEN forward_media_message(link[1], media_info[1], msg.caption, link[2])
       ELSE Call("sendMessage", link[1], "relay", "none", FALSE, Some(link[2]))

\* A mutation of the success notices: every notice is threaded.
SuccessNoticesAllThreaded(msg) ==
    [i \in 1..Len(ADMIN_IDS) |->
        Call("sendMessage", ADMIN_IDS[i], "success", "none", FALSE,
             Some(msg.message_id))]

\* "Reply sent successfully": one notice per admin, threaded to the admin's
\* own message for the admin who replied.
SuccessNotices(msg) ==
    [i \in 1..Len(ADMIN_IDS) |->
        Call("sendMessage", ADMIN_IDS[i], "success", "none", FALSE,
             IF ADMIN_IDS[i] = msg.from THEN Some(msg.message_id) ELSE None)]

\* "Failed to send reply", to the admin who replied.
FailureNotice(msg) ==
    Call("sendMessage", msg.from, "failure", "none", FALSE, Some(msg.message_id))

\* A mutation of the not-forwarded branch: the admin is told it failed.
IgnoredReplyNotifies(fm, rm, g, msg) ==
    Outcome(fm, rm, g, <<FailureNotice(msg)>>, << >>, "none", "ok", None, None)

\* "Reply to non-forwarded message, ignoring": a log entry only.
IgnoredReply(fm, rm, g, msg) == Quiet(fm, rm, g)

\* A mutation of the admin path: a store write that fails ends the handler
\* (save_data_to_gist without its try/except and status test).
AdminPathSaveFatal(fm, rm, cfg, g, msg, oc, sv) ==
    IF msg.reply_to = None THEN Quiet(fm, rm, g)
    ELSE IF ~InDirectory(fm, msg.reply_to[1]) THEN IgnoredReply(fm, rm, g, msg)
    ELSE
      LET link == fm[msg.reply_to[1]]
          relay == RelayCall(msg, link)
          response == oc[1]
      IN IF response = "raise"
         THEN Outcome(fm, rm, g, <<relay>>, << >>, response, "fault", None, None)
         ELSE IF RelayOk(response)
         THEN LET rm2 == MarkReplied(rm, link[2])
                  s == save_data_to_gist(fm, rm2, cfg, g, sv[1])
                  n == Issue(SuccessNotices(msg), Tail(oc))
              IN IF s.sent # << >> /\ s.sent # <<"200">>
                 THEN Outcome(fm, rm2, s.gist, <<relay>>, s.sent, response,
                              "fault", Some(link[2]), None)
                 ELSE Outcome(fm, rm2, s.gist, <<relay>> \o n.calls, s.sent,
                              response, IF n.raised THEN "fault" ELSE "ok",
                              Some(link[2]),
                              IF s.sent = <<"200">>
                              THEN Some([fm |-> fm, rm |-> rm2]) ELSE None)
         ELSE LET n == Issue(<<FailureNotice(msg)>>, Tail(oc))
              IN Outcome(fm, rm, g, <<relay>> \o n.calls, << >>, response,
                         IF n.raised THEN "fault" ELSE "ok", None, None)

\* Messages FROM the admins.
AdminPath(fm, rm, cfg, g, msg, oc, sv) ==
    IF msg.reply_to = None THEN Quiet(fm, rm, g)
    ELSE IF ~InDirectory(fm, msg.reply_to[1]) THEN IgnoredReply(fm, rm, g, msg)
    ELSE
      LET link == fm[msg.reply_to[1]]
          relay == RelayCall(msg, link)
          response == oc[1]
      IN IF response = "raise"
         THEN Outcome(fm, rm, g, <<relay>>, << >>, response, "fault", None, None)
         ELSE IF RelayOk(response)
         THEN LET rm2 == MarkReplied(rm, link[2])
                  s == save_data_to_gist(fm, rm2, cfg, g, sv[1])
                  n == Issue(SuccessNotices(msg), Tail(oc))
              IN Outcome(fm, rm2, s.gist, <<relay>> \o n.calls, s.sent, response,
                         IF n.raised THEN "fault" ELSE "ok", Some(link[2]),
                         IF s.sent = <<"200">>
                         THEN Some([fm |-> fm, rm |-> rm2]) ELSE None)
         ELSE LET n == Issue(<<FailureNotice(msg)>>, Tail(oc))
              IN Outcome(fm, rm, g, <<relay>> \o n.calls, << >>, response,
                         IF n.raised THEN "fault" ELSE "ok", None, None)

\* The module assigns no global named ADMIN_ID (only ADMIN_IDS_STR and
\* ADMIN_IDS): evaluating the name raises NameError.
ADMIN_ID == None

\* any(e["type"] in ("mention", "text_mention") for e in entities)
is_mention(entities) ==
    \E i \in 1..Len(entities) : entities[i] \in {"mention", "text_mention"}

\* msg.get("reply_to_message", {}).get("message_id") in replied_messages
reply_status(msg, rm) == msg.reply_to # None /\ msg.reply_to[1] \in rm

\* The user-info notice, sent as a reply to the forwarded copy.
InfoNotice(admin_id, admin_fwd_id, prefixed) ==
    Call("sendMessage", admin_id, IF prefixed THEN "info_replied" ELSE "info",
         "none", FALSE, Some(admin_fwd_id))

\* for admin_id in ADMIN_IDS: forward, record the link, send the notice.
\* i: position in ADMIN_IDS; k: position of the next call's outcome.
RECURSIVE FanOut(_, _, _, _, _, _, _, _)
FanOut(i, k, fm, calls, msg, prefixed, oc, ids) ==
    IF i > Len(ADMIN_IDS) THEN [fm |-> fm, calls |-> calls, raised |-> FALSE]
    ELSE
      LET admin_fwd == Forward(ADMIN_IDS[i], msg.chat_id, msg.message_id)
      IN IF oc[k] = "raise"
         THEN [fm |-> fm, calls |-> Append(calls, admin_fwd), raised |-> TRUE]
         ELSE IF oc[k] = "ok"
         THEN LET fm2 == Put(fm, ids[i + 1], <<msg.chat_id, msg.message_id>>)
                  info == InfoNotice(ADMIN_IDS[i], ids[i + 1], prefixed)
              IN IF oc[k + 1] = "raise"
                 THEN [fm |-> fm2, calls |-> calls \o <<admin_fwd, info>>,
                       raised |-> TRUE]
                 ELSE FanOut(i + 1, k + 2, fm2, calls \o <<admin_fwd, info>>,
                             msg, prefixed, oc, ids)
         ELSE FanOut(i + 1, k + 1, fm, Append(calls, admin_fwd),
                     msg, prefixed, oc, ids)

\* Messages TO the bot, private or with a mention.
UserPath(fm, rm, cfg, g, msg, oc, sv, ids) ==
    LET prefixed == reply_status(msg, rm)
    IN IF ADMIN_ID = None
       THEN \* NameError while the arguments of the first forward are built
            Outcome(fm, rm, g, << >>, << >>, "none", "fault", None, None)
       ELSE
         LET fwd == Forward(ADMIN_ID[1], msg.chat_id, msg.message_id)
         IN IF oc[1] = "raise"
            THEN Outcome(fm, rm, g, <<fwd>>, << >>, "none", "fault", None, None)
            ELSE IF oc[1] # "ok"
            THEN Outcome(fm, rm, g, <<fwd>>, << >>, "none", "ok", None, None)
            ELSE
              LET fm1 == Put(fm, ids[1], <<msg.chat_id, msg.message_id>>)
                  s1 == save_data_to_gist(fm1, rm, cfg, g, sv[1])
                  snap1 == IF s1.sent = <<"200">>
                           THEN Some([fm |-> fm1, rm |-> rm]) ELSE None
                  f == FanOut(1, 2, fm1, <<fwd>>, msg, prefixed, oc, ids)
                  s2 == save_data_to_gist(f.fm, rm, cfg, s1.gist, sv[2])
              IN IF f.raised
                 THEN Outcome(f.fm, rm, s1.gist, f.calls, s1.sent, "none",
                              "fault", None, snap1)
                 ELSE Outcome(f.fm, rm, s2.gist, f.calls, s1.sent \o s2.sent,
                              "none", "ok", None,
                              IF s2.sent = <<"200">>
                              THEN Some([fm |-> f.fm, rm |-> rm]) ELSE snap1)

\* webhook(), POST: the handler from the parsed update to its return.
webhook(fm, rm, cfg, g, update, oc, sv, ids) ==
    IF update.kind # "message" THEN Quiet(fm, rm, g)
    ELSE IF IsAdmin(update.from) THEN AdminPath(fm, rm, cfg, g, update, oc, sv)
    ELSE IF update.chat_type = "private" \/ is_mention(update.entities)
         THEN UserPath(fm, rm, cfg, g, update, oc, sv, ids)
         ELSE Quiet(fm, rm, g)

\* ----------------------------------------------------------------- inputs
Message(from, chat_id, chat_type, message_id, reply_to, entities, media, caption) ==
    [kind |-> "message", from |-> from, chat_id |-> chat_id,
     chat_type |-> chat_type, message_id |-> message_id, reply_to |-> reply_to,
     entities |-> entities, media |-> media, caption |-> caption]

\* An update that carries no "message".
OtherUpdate == [kind |-> "other"]

EntityLists == {<< >>, <<"bold">>, <<"mention">>, <<"text_mention">>}

\* Messages of a sender who is no admin, in the private chat or in a group;
\* a reply refers to an earlier message of the chat, whose id may also be
\* the id of a forwarded copy in an admin's chat.
UserEvents ==
    {Message(Ids.customer, c[1], c[2], mr[1], mr[2], e, NoMedia, FALSE) :
        c \in {<<Ids.customer, "private">>, <<Ids.group, "group">>},
        mr \in {<<m, None>> : m \in MsgIds}
               \cup {<<x[2], Some(x[1])>> : x \in {y \in MsgIds \X MsgIds : y[1] < y[2]}}
               \cup {<<m, Some(f)>> : m \in {1}, f \in FwdIds},
        e \in EntityLists}

MediaTypeSet == {MediaTypes[i] : i \in 1..Len(MediaTypes)}
Present(media) == {t \in MediaTypeSet : media[t] # "absent"}

\* Media payloads with at most n keys present.
MediaUpTo(n) ==
    {media \in [MediaTypeSet -> MediaStates] : Cardinality(Present(media)) <= n}

\* Text, or one well-formed document.
PlainMedia == {NoMedia, [NoMedia EXCEPT !["document"] = "ok"]}

AdminSet == {ADMIN_IDS[i] : i \in 1..Len(ADMIN_IDS)}
AdminReplyTargets == {None} \cup {Some(x) : x \in FwdIds \cup {Ids.unknown}}

\* Messages of the admins, in their private chat with the bot.
AdminEvents(mediaSet) ==
    {Message(a, a, "private", Ids.admin_msg, r, << >>, media, cap) :
        a \in AdminSet, r \in AdminReplyTargets, media \in mediaSet,
        cap \in BOOLEAN}

\* How many platform calls, store writes and new message ids one run of
\* the handler can consume.
Resolves(fm, update) ==
    update.reply_to # None /\ InDirectory(fm, update.reply_to[1])
CallBudget(fm, update) ==
    IF update.kind # "message" THEN 0
    ELSE IF IsAdmin(update.from)
         THEN IF Resolves(fm, update) THEN 1 + Len(ADMIN_IDS) ELSE 0
    ELSE IF ADMIN_ID = None THEN 0 ELSE 1 + 2 * Len(ADMIN_IDS)
SaveBudget(fm, update) ==
    IF update.kind # "message" THEN 0
    ELSE IF IsAdmin(update.from)
         THEN IF Resolves(fm, update) THEN 1 ELSE 0
    ELSE IF ADMIN_ID = None THEN 0 ELSE 2
IdBudget(update) ==
    IF update.kind # "message" \/ IsAdmin(update.from) \/ ADMIN_ID = None
    THEN 0 ELSE 1 + Len(ADMIN_IDS)

\* One POST to /webhook, handled from request to response.
Webhook(events) ==
    /\ pc = "serving"
    /\ \E update \in events :
       \E oc \in [1..CallBudget(forward_map, update) -> Outcomes] :
       \E sv \in [1..SaveBudget(forward_map, update) -> SaveStatuses] :
       \E ids \in [1..IdBudget(update) -> FwdIds] :
       \E r \in {webhook(forward_map, replied_messages, configured, gist,
                          update, oc, sv, ids)} :
            /\ forward_map' = r.fm
            /\ replied_messages' = r.rm
            /\ gist' = r.gist
            /\ relayed' = IF r.marked = None THEN relayed
                          ELSE relayed \cup {r.marked[1]}
            /\ persisted' = IF r.snapshot = None THEN persisted ELSE r.snapshot
            /\ last' = [op |-> "webhook", status |-> "none", ev |-> update,
                        calls |-> r.calls, saves |-> r.saves,
                        relay |-> r.relay, result |-> r.result,
                        raised |-> \E i \in DOMAIN oc :
                                      i <= Len(r.calls) /\ oc[i] = "raise",
                        pre_fm |-> forward_map, pre_rm |-> replied_messages,
                        again |-> r.marked # None /\ r.marked[1] \in relayed]
    /\ pc' = "responding"
    /\ UNCHANGED <<configured, handlers>>

\* Text messages of the admins in the group chat, with and without a
\* mention of the bot.
AdminGroupEvents ==
    {Message(a, Ids.group, "group", Ids.admin_msg, r, e, NoMedia, FALSE) :
        a \in AdminSet, r \in AdminReplyTargets,
        e \in {<< >>, <<"mention">>}}

MainEvents ==
    UserEvents \cup AdminEvents(PlainMedia) \cup AdminGroupEvents
        \cup {OtherUpdate}

Receive == Webhook(MainEvents)

NoEvent == [kind |-> "none"]

\* The server's request threads (the development server of app.run handles
\* each request in a thread of its own), and a thread that runs no handler.
Threads == {1, 2}
IdleHandler ==
    [pc |-> "idle", ev |-> NoEvent, link |-> None, data |-> None,
     save |-> "none", result |-> "none"]
NoHandlers == [t \in Threads |-> IdleHandler]

Idle(op, status) ==
    [op |-> op, status |-> status, ev |-> NoEvent, calls |-> << >>,
     saves |-> << >>, relay |-> "none", result |-> "none", raised |-> FALSE,
     pre_fm |-> EmptyMap, pre_rm |-> {}, again |-> FALSE]

Init ==
    /\ pc = "start"
    /\ configured \in BOOLEAN
    /\ gist \in GistFiles
    /\ (~configured => gist = [fm |-> NoFile, rm |-> NoFile])
    /\ forward_map = EmptyMap
    /\ replied_messages = {}
    /\ relayed = {}
    /\ persisted = None
    /\ last = Idle("init", "none")
    /\ handlers = NoHandlers

\* __main__: load_data_from_gist() before the server accepts requests.
Startup ==
    /\ pc = "start"
    /\ \E status \in LoadStatuses :
       \E r \in {load_data_from_gist(forward_map, replied_messages,
                                      configured, gist, status)} :
            /\ forward_map' = r.fm
            /\ replied_messages' = r.rm
            /\ last' = Idle("load", IF configured THEN status ELSE "none")
    /\ pc' = "serving"
    /\ UNCHANGED <<configured, gist, relayed, persisted, handlers>>

\* The process ends and is started again: module-level state is rebuilt,
\* the gist stays.
Restart ==
    /\ pc = "serving"
    /\ pc' = "start"
    /\ forward_map' = EmptyMap
    /\ replied_messages' = {}
    /\ relayed' = {}
    /\ last' = Idle("restart", "none")
    /\ UNCHANGED <<configured, gist, persisted, handlers>>

\* The response has gone out; the server waits for the next request.
Respond ==
    /\ pc = "responding"
    /\ pc' = "serving"
    /\ last' = Idle("respond", "none")
    /\ UNCHANGED <<configured, gist, forward_map, replied_messages, relayed,
                   persisted, handlers>>

Next == Startup \/ Restart \/ Receive \/ Respond

Spec == Init /\ [][Next]_vars

\* ------------------------------------------------- media of admin replies
\* The server right after a successful load of a gist that holds one link
\* under forwarded id 5 and no replied_messages.json.
InitMedia ==
    /\ pc = "serving"
    /\ configured = TRUE
    /\ \E l \in Links :
         /\ gist = [fm |-> Json([s \in {<<"5">>} |-> [arr |-> <<l[1], l[2]>>]]),
                    rm |-> NoFile]
         /\ forward_map = load_data_from_gist(EmptyMap, {}, TRUE,
                [fm |-> Json([s \in {<<"5">>} |-> [arr |-> <<l[1], l[2]>>]]),
                 rm |-> NoFile], "200").fm
    /\ replied_messages = {}
    /\ relayed = {}
    /\ persisted = None
    /\ last = Idle("load", "200")
    /\ handlers = NoHandlers

MediaEvents == AdminEvents(MediaUpTo(MaxMedia))

ReceiveMedia == Webhook(MediaEvents)

NextMedia == ReceiveMedia \/ Respond

SpecMedia == InitMedia /\ [][NextMedia]_vars

\* ---------------------------------------------------- overlapping requests
\* Two requests handled at the same time, each in a thread of its own.  The
\* module has no lock: a thread can be pre-empted between any two of the
\* handler's statements, and it gives up the interpreter during every HTTP
\* call.  The steps of the admin path are: the lookup and the relay call
\* (lines 211-238), replied_messages.add (242), the first half of
\* save_data_to_gist, which reads the two globals into the request body
\* (88-101), its PATCH (103-110), and the notices and the return (245-268).

\* The server right after a successful load of a gist that holds two links
\* of the customer's chat, under forwarded ids 5 and 12.
ConcStoredMaps ==
    {m \in StoredMaps :
        /\ DOMAIN m = KeyStrings
        /\ \A k \in KeyStrings : m[k].arr[1] = Ids.customer
        /\ \A k1, k2 \in KeyStrings : k1 # k2 => m[k1] # m[k2]}

InitConc ==
    /\ pc = "serving"
    /\ configured = TRUE
    /\ \E m \in ConcStoredMaps :
         /\ gist = [fm |-> Json(m), rm |-> NoFile]
         /\ forward_map = load_data_from_gist(EmptyMap, {}, TRUE,
                [fm |-> Json(m), rm |-> NoFile], "200").fm
    /\ replied_messages = {}
    /\ relayed = {}
    /\ persisted = None
    /\ last = Idle("load", "200")
    /\ handlers = NoHandlers

\* Text replies of the admins.
ConcEvents == AdminEvents({NoMedia})

Set(t, h) == handlers' = [handlers EXCEPT ![t] = h]

\* A request arrives: the handler runs up to the answer of the relay call.
BeginReply(t) ==
    /\ handlers[t].pc = "idle"
    /\ \E update \in ConcEvents, oc \in [1..2 -> Outcomes] :
         LET h == [handlers[t] EXCEPT !.ev = update]
         IN IF ~Resolves(forward_map, update)
            THEN Set(t, [h EXCEPT !.pc = "done", !.result = "ok"])
            ELSE IF oc[1] = "raise"
            THEN Set(t, [h EXCEPT !.pc = "done", !.result = "fault"])
            ELSE IF RelayOk(oc[1])
            THEN Set(t, [h EXCEPT !.pc = "relayed",
                            !.link = Some(forward_map[update.reply_to[1]])])
            ELSE Set(t, [h EXCEPT !.pc = "done",
                            !.result = IF Issue(<<FailureNotice(update)>>,
                                                Tail(oc)).raised
                                       THEN "fault" ELSE "ok"])
    /\ UNCHANGED <<pc, configured, gist, forward_map, replied_messages,
                   relayed, persisted, last>>

\* replied_messages.add(orig_msg_id)
Mark(t) ==
    /\ handlers[t].pc = "relayed"
    /\ replied_messages' = MarkReplied(replied_messages, handlers[t].link[1][2])
    /\ Set(t, [handlers[t] EXCEPT !.pc = "marked"])
    /\ UNCHANGED <<pc, configured, gist, forward_map, relayed, persisted, last>>

\* save_data_to_gist, first half: the request body is built from the
\* globals as they are now.
Prepare(t) ==
    /\ handlers[t].pc = "marked"
    /\ Set(t, [handlers[t] EXCEPT
                 !.pc = "prepared",
                 !.data = Some([fm |-> forward_map, rm |-> replied_messages])])
    /\ UNCHANGED <<pc, configured, gist, forward_map, replied_messages,
                   relayed, persisted, last>>

\* save_data_to_gist, second half: the PATCH with the body built before.
Patch(t) ==
    /\ handlers[t].pc = "prepared"
    /\ \E status \in SaveStatuses :
       \E s \in {save_data_to_gist(handlers[t].data[1].fm, handlers[t].data[1].rm,
                                   configured, gist, status)} :
            /\ gist' = s.gist
            /\ Set(t, [handlers[t] EXCEPT !.pc = "saved", !.save = status])
    /\ UNCHANGED <<pc, configured, forward_map, replied_messages, relayed,
                   persisted, last>>

\* The success notices, and the return.
Notify(t) ==
    /\ handlers[t].pc = "saved"
    /\ \E oc \in [1..Len(ADMIN_IDS) -> Outcomes] :
         Set(t, [handlers[t] EXCEPT
                   !.pc = "done",
                   !.result = IF Issue(SuccessNotices(handlers[t].ev), oc).raised
                              THEN "fault" ELSE "ok"])
    /\ UNCHANGED <<pc, configured, gist, forward_map, replied_messages,
                   relayed, persisted, last>>

NextConc ==
    \E t \in Threads :
        BeginReply(t) \/ Mark(t) \/ Prepare(t) \/ Patch(t) \/ Notify(t)

SpecConc == InitConc /\ [][NextConc]_vars

\* ------------------------------------------------------ recording a link
\* The recording of a link taken by itself: the statements of lines 293-297
\* (and 316-319) applied to a directory that a load can give, for a
\* forwarded copy whose id the platform chose.  Message ids are per chat
\* and forward_map is keyed by the id alone, so the id of a copy in one
\* admin's chat can be a key already.

\* The server right after a successful load of a gist with any directory.
InitLink ==
    /\ pc = "serving"
    /\ configured = TRUE
    /\ \E m \in StoredMaps :
         /\ gist = [fm |-> Json(m), rm |-> NoFile]
         /\ forward_map = load_data_from_gist(EmptyMap, {}, TRUE,
                [fm |-> Json(m), rm |-> NoFile], "200").fm
    /\ replied_messages = {}
    /\ relayed = {}
    /\ persisted = None
    /\ last = Idle("load", "200")
    /\ handlers = NoHandlers

\* User messages that are forwarded: private, or with a mention.
LinkEvents ==
    {e \in UserEvents : e.chat_type = "private" \/ is_mention(e.entities)}

\* fwd_id = fwd["result"]["message_id"];
\* forward_map[fwd_id] = (chat_id, msg["message_id"]); save_data_to_gist()
RecordLink ==
    /\ pc = "serving"
    /\ \E msg \in LinkEvents, a \in AdminSet, fwd_id \in FwdIds,
          status \in SaveStatuses :
       \E fm2 \in {Put(forward_map, fwd_id, <<msg.chat_id, msg.message_id>>)} :
       \E s \in {save_data_to_gist(fm2, replied_messages, configured, gist,
                                   status)} :
            /\ forward_map' = fm2
            /\ gist' = s.gist
            /\ last' = [Idle("record", "none") EXCEPT
                           !.ev = msg,
                           !.calls = <<Forward(a, msg.chat_id, msg.message_id)>>,
                           !.saves = s.sent,
                           !.pre_fm = forward_map]
    /\ pc' = "responding"
    /\ UNCHANGED <<configured, replied_messages, relayed, persisted, handlers>>

NextLink == RecordLink \/ Respond

SpecLink == InitLink /\ [][NextLink]_vars

\* ------------------------------------------------------------- properties
\* The last step was a run of the handler on a message.
HandledMessage == last.op = "webhook" /\ last.ev.kind = "message"
FromAdmin == HandledMessage /\ last.ev.from \in AdminSet
FromUser == HandledMessage /\ last.ev.from \notin AdminSet
NoMention ==
    \A i \in 1..Len(last.ev.entities) :
        last.ev.entities[i] \notin {"mention", "text_mention"}
\* An admin's reply whose target was a key of the directory, and its link.
ResolvedReply ==
    /\ FromAdmin
    /\ last.ev.reply_to # None
    /\ last.ev.reply_to[1] \in DOMAIN last.pre_fm
LinkOfReply == last.pre_fm[last.ev.reply_to[1]]
StateUntouched ==
    forward_map = last.pre_fm /\ replied_messages = last.pre_rm
CallsWith(text) == {i \in 1..Len(last.calls) : last.calls[i].text = text}
ForwardsTo(a) ==
    {i \in 1..Len(last.calls) :
        last.calls[i].method = "forwardMessage" /\ last.calls[i].chat_id = a}

\* C2: a private message of a non-admin gets exactly one forward call per
\* configured admin and one new directory entry per configured admin.
C2_OneForwardPerOperator ==
    (FromUser /\ last.ev.chat_type = "private") =>
        /\ \A a \in AdminSet : Cardinality(ForwardsTo(a)) = 1
        /\ Cardinality(DOMAIN forward_map \ DOMAIN last.pre_fm)
              = Cardinality(AdminSet)

\* C3: a message of a non-admin outside a private chat and without a
\* mention makes no outbound call and leaves forward_map and
\* replied_messages as they were.
C3_GroupNoMentionIgnored ==
    (FromUser /\ last.ev.chat_type # "private" /\ NoMention) =>
        (last.calls = << >> /\ StateUntouched)

\* C3 witness: such a message, itself a reply to an id that is a key of
\* the directory, has been handled.
C3_Witness ==
    /\ FromUser /\ last.ev.chat_type # "private" /\ NoMention
    /\ last.ev.reply_to # None
    /\ last.ev.reply_to[1] \in DOMAIN forward_map
    /\ last.result = "ok"

\* C4: whatever the event and the outcomes of the platform calls and store
\* writes, the handler returns {"ok": true}.
C4_AlwaysAcknowledged == last.op = "webhook" => last.result = "ok"

\* C5: an admin's text reply to a forwarded id with link (c, m), with the
\* platform answering every call of the event and answering the relay ok:
\* exactly one send-text call to c as a reply to m, m is in the reply-set
\* afterwards, and a success notice goes to the admin who replied.
C5_TextReplyRelayed ==
    (/\ ResolvedReply
     /\ Present(last.ev.media) = {}
     /\ last.relay = "ok"
     /\ last.result = "ok") =>
        /\ Cardinality(CallsWith("relay")) = 1
        /\ \A i \in CallsWith("relay") :
             /\ last.calls[i].method = "sendMessage"
             /\ last.calls[i].chat_id = LinkOfReply[1]
             /\ last.calls[i].reply_to = Some(LinkOfReply[2])
        /\ \A i \in 1..Len(last.calls) :
             last.calls[i].chat_id \in Chats => i \in CallsWith("relay")
        /\ LinkOfReply[2] \in replied_messages
        /\ \E i \in CallsWith("success") : last.calls[i].chat_id = last.ev.from

\* C5 witness: a text reply was relayed to a message not marked before.
C5_Witness ==
    /\ ResolvedReply
    /\ Present(last.ev.media) = {}
    /\ last.relay = "ok"
    /\ last.result = "ok"
    /\ LinkOfReply[2] \notin last.pre_rm

\* C6: when the platform answers the relay of a resolved reply with an
\* error, the reply-set and the directory are unchanged, no store write is
\* made, and the only notice is one failure notice, to the admin who
\* replied.
C6_FailedRelayNotMarked ==
    (ResolvedReply /\ last.relay = "fail") =>
        /\ StateUntouched
        /\ last.saves = << >>
        /\ Len(last.calls) = 2
        /\ last.calls[2].text = "failure"
        /\ last.calls[2].chat_id = last.ev.from
        /\ CallsWith("success") = {}

\* C6 witness: a relay failed for a message not marked before, with the
\* store configured.
C6_Witness ==
    /\ ResolvedReply /\ last.relay = "fail"
    /\ configured
    /\ LinkOfReply[2] \notin last.pre_rm

\* C7: an admin's reply to an id that is no key of the directory makes no
\* outbound call, changes neither the directory nor the reply-set, and the
\* handler returns the acknowledgment.
C7_UnknownReplyIgnored ==
    (/\ FromAdmin
     /\ last.ev.reply_to # None
     /\ last.ev.reply_to[1] \notin DOMAIN last.pre_fm) =>
        (last.calls = << >> /\ StateUntouched /\ last.result = "ok")

\* C7 witness: such a reply was handled while the directory was not empty.
C7_Witness ==
    /\ FromAdmin
    /\ last.ev.reply_to # None
    /\ last.ev.reply_to[1] \notin DOMAIN last.pre_fm
    /\ DOMAIN last.pre_fm # {}

\* The six media kinds in the order the claim gives, and the send call of
\* each.
KindOrder == <<"photo", "video", "document", "audio", "voice", "sticker">>
SendCallOf ==
    [photo |-> "sendPhoto", video |-> "sendVideo", document |-> "sendDocument",
     audio |-> "sendAudio", voice |-> "sendVoice", sticker |-> "sendSticker"]
FirstIn(kinds) ==
    KindOrder[CHOOSE i \in 1..Len(KindOrder) :
                 /\ KindOrder[i] \in kinds
                 /\ \A j \in 1..(i - 1) : KindOrder[j] \notin kinds]
Extractable(media) == {t \in MediaTypeSet : media[t] = "ok"}
\* The relay is one call: send-media of the first kind in kinds, with the
\* reply's caption, to the link's chat as a reply to the link's message;
\* send-text when kinds is empty.
RelayIsOfFirst(kinds) ==
    /\ Cardinality(CallsWith("relay")) = 1
    /\ \A i \in CallsWith("relay") :
         /\ last.calls[i].chat_id = LinkOfReply[1]
         /\ last.calls[i].reply_to = Some(LinkOfReply[2])
         /\ IF kinds # {}
            THEN /\ last.calls[i].method = SendCallOf[FirstIn(kinds)]
                 /\ last.calls[i].media = FirstIn(kinds)
                 /\ last.calls[i].caption = last.ev.caption
            ELSE /\ last.calls[i].method = "sendMessage"
                 /\ last.calls[i].media = "none"

\* C8 (as claimed): the relay of a resolved reply is one call, send-media
\* of the first kind present in the reply, send-text if none is present.
C8_FirstPresentKind == ResolvedReply => RelayIsOfFirst(Present(last.ev.media))

\* C8 (amended): the relay of a resolved reply is one call, send-media of
\* the first kind, in the order photo, video, document, audio, voice,
\* sticker, that is present and whose file id can be extracted (with the
\* reply's caption if any); send-text if no kind yields a file id.
C8_FirstExtractableKind ==
    ResolvedReply => RelayIsOfFirst(Extractable(last.ev.media))

\* C8 witness: a resolved reply with a caption and two media kinds, the
\* first of them without a usable file id, was relayed as the second.
C8_Witness ==
    /\ ResolvedReply
    /\ last.ev.caption
    /\ Cardinality(Present(last.ev.media)) = 2
    /\ Extractable(last.ev.media) # {}
    /\ last.ev.media[FirstIn(Present(last.ev.media))] = "bad"
    /\ \E i \in CallsWith("relay") :
         last.calls[i].media = FirstIn(Extractable(last.ev.media))

\* C9: a load that follows a successful save (the process having been
\* started again) yields the forward_map and replied_messages that were
\* saved.
C9_RoundTrip ==
    (last.op = "load" /\ last.status = "200" /\ persisted # None) =>
        /\ forward_map = persisted[1].fm
        /\ replied_messages = persisted[1].rm

\* C9 witness: such a load of a directory with a one-digit and a two-digit
\* key, a link of a group chat (negative id), and a non-empty reply-set.
C9_Witness ==
    /\ last.op = "load" /\ last.status = "200" /\ persisted # None
    /\ DOMAIN forward_map = FwdIds
    /\ \E k \in DOMAIN forward_map : forward_map[k][1] < 0
    /\ \E k \in DOMAIN forward_map : forward_map[k][1] > 0
    /\ replied_messages # {}

\* C10: a successful reply to an origin message that is already in the
\* reply-set (as it is after a first successful reply to it) leaves the
\* reply-set and the directory as the first reply left them.
C10_MarkIdempotent ==
    (ResolvedReply /\ last.relay = "ok" /\ LinkOfReply[2] \in last.pre_rm) =>
        StateUntouched

\* C10 witness: a second successful reply, in the same run, to the same
\* origin message.
C10_Witness ==
    /\ ResolvedReply /\ last.relay = "ok"
    /\ last.again
    /\ LinkOfReply[2] \in last.pre_rm

\* C11: from the load at startup until the process ends, no step removes
\* an id from replied_messages, whatever the event handled.
C11_ReplySetMonotonic ==
    [][pc' # "start" => replied_messages \subseteq replied_messages']_vars

\* C11 witness: with an id already in the reply-set, a reply to another
\* origin message has been relayed and marked.
C11_Witness ==
    /\ ResolvedReply /\ last.relay = "ok"
    /\ last.pre_rm # {}
    /\ LinkOfReply[2] \notin last.pre_rm
    /\ last.pre_rm \subseteq replied_messages

\* What a load of the gist would give.
Stored == load_data_from_gist(EmptyMap, {}, TRUE, gist, "200")
\* Thread t has returned from a handler that marked an id and whose PATCH
\* was answered 200.
ReturnedUpdate(t) ==
    /\ handlers[t].pc = "done"
    /\ handlers[t].link # None
    /\ handlers[t].save = "200"

\* C13: when two handlers that ran at the same time on different events
\* have both returned, each having marked an id and had its store write
\* answered 200, then replied_messages holds both ids and so does the
\* stored replied set (and the stored directory is the one in memory).
C13_NoLostUpdate ==
    (/\ \A t \in Threads : ReturnedUpdate(t)
     /\ handlers[1].ev # handlers[2].ev) =>
        /\ \A t \in Threads : handlers[t].link[1][2] \in replied_messages
        /\ \A t \in Threads : handlers[t].link[1][2] \in Stored.rm
        /\ Stored.fm = forward_map

\* The store holds what memory holds.
InSync == Stored.fm = forward_map /\ Stored.rm = replied_messages

\* C14: with the store configured and every store write of the handler
\* answered 200, a handler that added a link or an id, or wrote to the
\* store, leaves the store equal to forward_map and replied_messages when
\* it finishes (a handler that did neither leaves both as they were, so a
\* store that agreed with memory before it agrees after it).
C14_WriteThrough ==
    [][(/\ pc = "serving" /\ pc' = "responding"
        /\ configured
        /\ \A i \in 1..Len(last'.saves) : last'.saves[i] = "200"
        /\ \/ forward_map' # forward_map
           \/ replied_messages' # replied_messages
           \/ gist' # gist) => InSync']_vars

\* C14 witness: a handler added an id to a reply-set that was not empty,
\* its store write was answered 200, and a load now gives back memory.
C14_Witness ==
    /\ ResolvedReply /\ last.relay = "ok"
    /\ configured
    /\ last.saves = <<"200">>
    /\ last.pre_rm # {}
    /\ LinkOfReply[2] \notin last.pre_rm
    /\ InSync

\* The handler marked an id and its store write failed (a status other
\* than 200, or an exception inside save_data_to_gist).
StoreWriteFailed ==
    /\ ResolvedReply /\ last.relay = "ok"
    /\ last.saves # << >>
    /\ last.saves[1] # "200"
\* No step before the end of the process removes or changes a link.
LinksKept ==
    pc' # "start" =>
        \A k \in DOMAIN forward_map :
            k \in DOMAIN forward_map' /\ forward_map'[k] = forward_map[k]

\* C15: when the store write of a handler fails, the id it added is in
\* replied_messages and the directory is as before, the handler goes on to
\* its notices and, the platform answering them, returns the
\* acknowledgment; and the links stay in forward_map for the rest of the
\* process, so a later reply to the same forwarded id resolves.
C15_StoreFailureTolerated ==
    /\ [](StoreWriteFailed =>
            /\ replied_messages = last.pre_rm \cup {LinkOfReply[2]}
            /\ forward_map = last.pre_fm
            /\ InDirectory(forward_map, last.ev.reply_to[1])
            /\ CallsWith("success") # {}
            /\ ~last.raised =>
                  /\ last.result = "ok"
                  /\ \A a \in AdminSet :
                       \E i \in CallsWith("success") : last.calls[i].chat_id = a)
    /\ [][LinksKept]_vars

\* C15 witness: no store write has succeeded so far, an origin message was
\* answered earlier in this process, and a later reply to it has resolved,
\* been relayed and acknowledged although its store write failed too.
C15_Witness ==
    /\ StoreWriteFailed
    /\ persisted = None
    /\ last.again
    /\ ~last.raised
    /\ last.result = "ok"

Loaded == last.op = "load"
\* The store was not configured, not reached, or answered another status
\* than 200.
NoAnswer == ~configured \/ last.status # "200"
Unusable(file) == file.kind \in {"absent", "corrupt"}

\* C17 (as claimed): the load returns, and when the store is unconfigured,
\* unreachable, answers a non-200 status, or holds a missing or corrupt
\* record, forward_map and replied_messages are both empty.
C17_BothEmpty ==
    Loaded =>
        /\ pc = "serving"
        /\ (NoAnswer \/ Unusable(gist.fm) \/ Unusable(gist.rm)) =>
              (forward_map = EmptyMap /\ replied_messages = {})

\* C17 (amended): the load returns; both structures are empty when the
\* store is unconfigured, unreachable, answers a non-200 status or holds a
\* corrupt forward_map.json; otherwise each structure is loaded from its
\* own record: forward_map is non-empty exactly when forward_map.json holds
\* links, and replied_messages is non-empty exactly when
\* replied_messages.json parses and holds ids.
C17_EachRecordByItself ==
    Loaded =>
        /\ pc = "serving"
        /\ (NoAnswer \/ gist.fm.kind = "corrupt") =>
              (forward_map = EmptyMap /\ replied_messages = {})
        /\ forward_map # EmptyMap <=>
              (~NoAnswer /\ gist.fm.kind = "json" /\ DOMAIN gist.fm.val # {})
        /\ replied_messages # {} <=>
              (/\ ~NoAnswer /\ gist.fm.kind # "corrupt"
               /\ gist.rm.kind = "json" /\ gist.rm.val.arr # << >>)

\* C17 witness: replied_messages.json was corrupt and forward_map.json
\* held two links: the directory is loaded, the reply-set is empty.
C17_Witness ==
    /\ Loaded
    /\ gist.rm.kind = "corrupt"
    /\ DOMAIN forward_map = FwdIds
    /\ replied_messages = {}

SuccessCallsTo(a) == {i \in CallsWith("success") : last.calls[i].chat_id = a}

\* C19: after a relay answered ok, the platform answering every call of
\* the event, each configured admin is sent exactly one success notice and
\* no other notice is sent; the notice to the admin who replied is a reply
\* to that admin's own message, and the notices to the other admins carry
\* no reply reference.
C19_SuccessNoticesThreaded ==
    (ResolvedReply /\ last.relay = "ok" /\ ~last.raised) =>
        /\ \A a \in AdminSet : Cardinality(SuccessCallsTo(a)) = 1
        /\ Len(last.calls) = 1 + Cardinality(AdminSet)
        /\ \A i \in 2..Len(last.calls) :
             /\ last.calls[i].text = "success"
             /\ last.calls[i].chat_id \in AdminSet
             /\ last.calls[i].reply_to =
                   IF last.calls[i].chat_id = last.ev.from
                   THEN Some(last.ev.message_id) ELSE None

\* C19 witness: the second admin of the list replied; the first admin's
\* notice is unthreaded and the second admin's is threaded.
C19_Witness ==
    /\ ResolvedReply /\ last.relay = "ok" /\ ~last.raised
    /\ last.ev.from = ADMIN_IDS[2]
    /\ \E i \in SuccessCallsTo(ADMIN_IDS[1]) : last.calls[i].reply_to = None
    /\ \E i \in SuccessCallsTo(ADMIN_IDS[2]) :
         last.calls[i].reply_to = Some(Ids.admin_msg)

ForwardCalls ==
    {i \in 1..Len(last.calls) : last.calls[i].method = "forwardMessage"}

\* C20: an event whose sender is an admin leaves every directory entry as
\* it was, adds none and makes no forward call, whatever its chat type,
\* entities and reply reference, and when it is not a reply it makes no
\* call and changes no state; an event whose sender is no admin leaves the
\* reply-set as it was.
C20_PathSeparation ==
    /\ FromAdmin =>
          /\ forward_map = last.pre_fm
          /\ ForwardCalls = {}
          /\ last.ev.reply_to = None => (last.calls = << >> /\ StateUntouched)
    /\ FromUser => replied_messages = last.pre_rm

\* C20 witness: an admin's message in the group chat that mentions the bot
\* and is no reply was handled while the directory held links.
C20_Witness ==
    /\ FromAdmin
    /\ last.ev.chat_type = "group"
    /\ ~NoMention
    /\ last.ev.reply_to = None
    /\ DOMAIN forward_map # {}
    /\ last.result = "ok"

====
